---- MODULE Spec2Model ----
(***************************************************************************)
(* Resume builder backend (src/main.py): the text linearizer               *)
(* _format_text_resume, the three exporters and the suggestion endpoint.   *)
(*                                                                         *)
(* A Python str is modelled as a sequence of atoms.  An atom is one        *)
(* whitespace character (" " or "\n") or a chunk of text that neither      *)
(* starts nor ends with whitespace ("a", "Summary", "|").  Concatenation,  *)
(* join, strip, split and truthiness are computed on these sequences.      *)
(***************************************************************************)
EXTENDS Integers, Sequences, FiniteSets, TLC

VARIABLES
    data,       \* ExportPayload.data of the request being served
    served,     \* endpoints that have produced their response
    parts,      \* _format_text_resume: the list `parts` before the join
    text,       \* the body of the /export/txt response
    doc,        \* export_docx: blocks added to the Document, in order
    pc,         \* export_pdf: position in the handler
    lines,      \* export_pdf: text.split("\n")
    idx,        \* export_pdf: index of the line the loop is at
    y,          \* export_pdf: vertical cursor
    font,       \* export_pdf: current canvas font <<name, size>>
    pages,      \* export_pdf: number of c.showPage() calls
    breaks,     \* export_pdf: c.showPage() calls made inside the line loop
    wrapped,    \* export_pdf: sub-lines of the current line not yet drawn
    cur,        \* export_pdf: the line being processed and how it is rendered
    lastDraw,   \* export_pdf: the latest c.drawString call
    payload,    \* SuggestPayload of the request being served
    resp        \* ai_suggest: the response

vars == <<data, served, parts, text, doc, pc, lines, idx, y, font, pages,
          breaks, wrapped, cur, lastDraw, payload, resp>>

fmtVars == <<parts, text, doc, served>>
pdfVars == <<pc, lines, idx, y, font, pages, breaks, wrapped, cur, lastDraw>>
sugVars == <<payload, resp>>

----------------------------------------------------------------------------
(* Bounds of the model *)

MaxExp == 2
MaxEdu == 2
MaxSkills == 2
MaxAch == 2
LongWords == 50

----------------------------------------------------------------------------
(* Python str and list operations *)

NL == "\n"
None == <<"None">>
NoRecord == [kind |-> "none"]

IsSpace(c) == c \in {" ", NL}

Truthy(s) == s # <<>>

Strip(s) ==
    LET keep == {i \in 1..Len(s) : ~IsSpace(s[i])}
        lo == CHOOSE i \in keep : \A j \in keep : i <= j
        hi == CHOOSE i \in keep : \A j \in keep : j <= i
    IN  IF keep = {} THEN <<>> ELSE SubSeq(s, lo, hi)

RECURSIVE Join(_, _)
Join(sep, ss) ==
    IF ss = <<>> THEN <<>>
    ELSE IF Len(ss) = 1 THEN ss[1]
    ELSE ss[1] \o sep \o Join(sep, Tail(ss))

RECURSIVE Split(_, _)
Split(s, sep) ==
    LET at == {i \in 1..Len(s) : s[i] = sep}
        first == CHOOSE i \in at : \A j \in at : i <= j
    IN  IF at = {} THEN <<s>>
        ELSE <<SubSeq(s, 1, first - 1)>> \o Split(SubSeq(s, first + 1, Len(s)), sep)

RECURSIVE Concat(_)
Concat(ss) == IF ss = <<>> THEN <<>> ELSE ss[1] \o Concat(Tail(ss))

NonEmpty(ss) == SelectSeq(ss, Truthy)

NonBlank(ss) == SelectSeq(ss, LAMBDA b : Truthy(Strip(b)))

BulletPrefix == <<" ", " ", "BULLET", " ">>

Bulleted(b) == BulletPrefix \o b

----------------------------------------------------------------------------
(* _format_text_resume *)

header(d) == IF Truthy(d.name) THEN d.name ELSE <<"Your", " ", "Name">>

subheader(d) ==
    Join(<<" ", "|", " ">>, NonEmpty(<<d.title, d.email, d.phone, d.location>>))

joined_fields(fs) == Join(<<" ", "-", " ">>, NonEmpty(fs))

experience_parts(e) ==
    <<joined_fields(<<e.role, e.company, e.period>>)>>
    \o [i \in 1..Len(NonBlank(e.bullets)) |-> Bulleted(NonBlank(e.bullets)[i])]

education_parts(ed) ==
    <<joined_fields(<<ed.degree, ed.school, ed.period>>)>>
    \o (IF Truthy(ed.details) THEN <<Bulleted(ed.details)>> ELSE <<>>)

render_skill(s) ==
    s.name \o (IF Truthy(s.level) THEN <<" ", "(">> \o s.level \o <<")">> ELSE <<>>)

named_skills_unfiltered(skills) == skills

named_skills(skills) == SelectSeq(skills, LAMBDA s : Truthy(s.name))

skills_line(skills) ==
    Join(<<",", " ">>,
         [i \in 1..Len(named_skills(skills)) |-> render_skill(named_skills(skills)[i])])

summary_section(d) ==
    IF Truthy(d.summary) THEN <<(<<NL, "Summary", NL>> \o d.summary)>> ELSE <<>>

Rev(s) == [i \in 1..Len(s) |-> s[Len(s) + 1 - i]]

experience_section_reversed(d) ==
    IF d.experience # <<>>
    THEN <<(<<NL, "Experience">>)>>
         \o Concat([i \in 1..Len(d.experience) |-> experience_parts(Rev(d.experience)[i])])
    ELSE <<>>

experience_section(d) ==
    IF d.experience # <<>>
    THEN <<(<<NL, "Experience">>)>>
         \o Concat([i \in 1..Len(d.experience) |-> experience_parts(d.experience[i])])
    ELSE <<>>

education_section(d) ==
    IF d.education # <<>>
    THEN <<(<<NL, "Education">>)>>
         \o Concat([i \in 1..Len(d.education) |-> education_parts(d.education[i])])
    ELSE <<>>

skills_section_unguarded(d) ==
    IF d.skills # <<>>
    THEN <<(<<NL, "Skills", NL>> \o skills_line(d.skills))>>
    ELSE <<>>

skills_section(d) ==
    IF d.skills # <<>> /\ Truthy(skills_line(d.skills))
    THEN <<(<<NL, "Skills", NL>> \o skills_line(d.skills))>>
    ELSE <<>>

achievements_section(d) ==
    IF d.achievements # <<>>
    THEN <<(<<NL, "Achievements">>)>>
         \o [i \in 1..Len(NonBlank(d.achievements)) |-> Bulleted(NonBlank(d.achievements)[i])]
    ELSE <<>>

format_parts(d) ==
    <<header(d)>>
    \o (IF Truthy(subheader(d)) THEN <<subheader(d)>> ELSE <<>>)
    \o summary_section(d)
    \o experience_section(d)
    \o education_section(d)
    \o skills_section(d)
    \o achievements_section(d)

finish_text_untrimmed(ps) == Join(<<NL>>, ps) \o <<NL>>

finish_text(ps) == Strip(Join(<<NL>>, ps)) \o <<NL>>

format_text_resume(d) == finish_text(format_parts(d))

----------------------------------------------------------------------------
(* export_docx: the blocks added to the Document, in order *)

Block(k, t) == [kind |-> k, text |-> t]

docx_experience(e) ==
    <<Block("paragraph", joined_fields(<<e.role, e.company, e.period>>))>>
    \o [i \in 1..Len(NonBlank(e.bullets)) |-> Block("bullet", NonBlank(e.bullets)[i])]

docx_education(ed) ==
    <<Block("paragraph", joined_fields(<<ed.degree, ed.school, ed.period>>))>>
    \o (IF Truthy(ed.details) THEN <<Block("paragraph", ed.details)>> ELSE <<>>)

docx_skills(d) ==
    IF d.skills # <<>>
    THEN <<Block("heading1", <<"Skills">>), Block("paragraph", skills_line(d.skills))>>
    ELSE <<>>

docx_blocks(d) ==
    <<Block("heading0", header(d))>>
    \o (IF Truthy(subheader(d)) THEN <<Block("paragraph", subheader(d))>> ELSE <<>>)
    \o (IF Truthy(d.summary)
        THEN <<Block("heading1", <<"Summary">>), Block("paragraph", d.summary)>>
        ELSE <<>>)
    \o (IF d.experience # <<>>
        THEN <<Block("heading1", <<"Experience">>)>>
             \o Concat([i \in 1..Len(d.experience) |-> docx_experience(d.experience[i])])
        ELSE <<>>)
    \o (IF d.education # <<>>
        THEN <<Block("heading1", <<"Education">>)>>
             \o Concat([i \in 1..Len(d.education) |-> docx_education(d.education[i])])
        ELSE <<>>)
    \o docx_skills(d)
    \o (IF d.achievements # <<>>
        THEN <<Block("heading1", <<"Achievements">>)>>
             \o [i \in 1..Len(NonBlank(d.achievements)) |->
                    Block("bullet", NonBlank(d.achievements)[i])]
        ELSE <<>>)

----------------------------------------------------------------------------
(* Requests: the resume records the exporters are run on *)

SeqsUpTo(S, n) == UNION {[1..k -> S] : k \in 0..n}

Resume(n, t, e, p, l, s, ex, ed, sk, ac) ==
    [name |-> n, title |-> t, email |-> e, phone |-> p, location |-> l,
     summary |-> s, experience |-> ex, education |-> ed, skills |-> sk,
     achievements |-> ac]

ExperienceItem(r, c, p, bs) == [role |-> r, company |-> c, period |-> p, bullets |-> bs]

EducationItem(dg, sc, p, dt) == [degree |-> dg, school |-> sc, period |-> p, details |-> dt]

Skill(n, lv) == [name |-> n, level |-> lv]

ExpItems ==
    { ExperienceItem(<<>>, <<>>, <<>>, <<>>),
      ExperienceItem(<<"dev">>, <<"acme">>, <<>>, << <<"built">>, <<" ">>, <<"shipped">> >>),
      ExperienceItem(<<>>, <<>>, <<"2020">>, <<>>) }

EduItems ==
    { EducationItem(<<>>, <<>>, <<>>, <<>>),
      EducationItem(<<"bsc">>, <<"mit">>, <<>>, <<"honours">>),
      EducationItem(<<>>, <<"ucl">>, <<"2010">>, <<>>) }

SkillItems ==
    { Skill(n, lv) : n \in {<<>>, <<"go">>}, lv \in {<<>>, <<"expert">>} }
    \cup { Skill(<<"sql">>, <<>>) }

AchItems == { <<"won">>, <<" ">>, <<"led">> }

ThinSummary == { <<>>, <<"about">> }
ThinExp == { <<>>, <<ExperienceItem(<<"dev">>, <<"acme">>, <<>>, << <<"built">> >>)>> }
ThinEdu == { <<>>, <<EducationItem(<<"bsc">>, <<>>, <<>>, <<>>)>> }
ThinSkills == { <<>>, <<Skill(<<"go">>, <<>>)>> }
ThinAch == { <<>>, << <<"won">> >> }

HeadInputs ==
    { Resume(n, t, e, p, l, s, ex, ed, sk, ac) :
        n \in {<<>>, <<" ">>, <<"ann">>},
        t \in {<<>>, <<" ">>, <<"eng">>}, e \in {<<>>, <<"a@b">>},
        p \in {<<>>, <<"555">>}, l \in {<<>>, <<"nyc">>},
        s \in ThinSummary, ex \in ThinExp, ed \in ThinEdu, sk \in ThinSkills,
        ac \in ThinAch }

BodyInputs ==
    { Resume(<<"ann">>, <<>>, <<>>, <<>>, <<>>, s, ex, ed, sk, ac) :
        s \in ThinSummary \cup {<<" ">>}, ex \in SeqsUpTo(ExpItems, MaxExp),
        ed \in ThinEdu, sk \in ThinSkills, ac \in ThinAch }
    \cup
    { Resume(<<"ann">>, <<>>, <<>>, <<>>, <<>>, s, ex, ed, sk, ac) :
        s \in ThinSummary, ex \in ThinExp, ed \in SeqsUpTo(EduItems, MaxEdu),
        sk \in ThinSkills, ac \in ThinAch }
    \cup
    { Resume(<<"ann">>, <<>>, <<>>, <<>>, <<>>, s, ex, ed, sk, ac) :
        s \in ThinSummary, ex \in ThinExp, ed \in ThinEdu,
        sk \in SeqsUpTo(SkillItems, MaxSkills), ac \in ThinAch }
    \cup
    { Resume(<<"ann">>, <<>>, <<>>, <<>>, <<>>, s, ex, ed, sk, ac) :
        s \in ThinSummary, ex \in ThinExp, ed \in ThinEdu, sk \in ThinSkills,
        ac \in SeqsUpTo(AchItems, MaxAch) }

ResumeInputs == HeadInputs \cup BodyInputs

----------------------------------------------------------------------------
(* Text and Word exports of one record *)

PdfIdle ==
    /\ pc = "idle" /\ lines = <<>> /\ idx = 0 /\ y = 0 /\ font = None
    /\ pages = 0 /\ breaks = 0 /\ wrapped = <<>> /\ cur = NoRecord /\ lastDraw = NoRecord

NoSuggest == payload = NoRecord /\ resp = NoRecord

Init ==
    /\ data \in ResumeInputs
    /\ served = {} /\ parts = None /\ text = None /\ doc = None
    /\ PdfIdle /\ NoSuggest

export_txt ==
    /\ "txt" \notin served
    /\ parts' = format_parts(data)
    /\ text' = format_text_resume(data)
    /\ served' = served \cup {"txt"}
    /\ UNCHANGED <<data, doc, pdfVars, sugVars>>

export_docx ==
    /\ "docx" \notin served
    /\ doc' = docx_blocks(data)
    /\ served' = served \cup {"docx"}
    /\ UNCHANGED <<data, parts, text, pdfVars, sugVars>>

Next == export_txt \/ export_docx

Spec == Init /\ [][Next]_vars

----------------------------------------------------------------------------
(* Properties of the text and Word exports *)

HeadingOrder == <<"Summary", "Experience", "Education", "Skills", "Achievements">>

HeadingNames == { <<HeadingOrder[i]>> : i \in 1..Len(HeadingOrder) }

IsHeadingText(l) == l \in HeadingNames

\* The lines of the returned text, its final newline removed.
OutLines == Split(SubSeq(text, 1, Len(text) - 1), NL)

\* The lines of the text joined from `parts`, before the final trim.
PartLines == Split(Join(<<NL>>, parts), NL)

HasNamedSkill(d) == \E i \in 1..Len(d.skills) : d.skills[i].name # <<>>

FieldNonEmpty(d, h) ==
    CASE h = "Summary" -> d.summary # <<>>
      [] h = "Experience" -> d.experience # <<>>
      [] h = "Education" -> d.education # <<>>
      [] h = "Skills" -> d.skills # <<>>
      [] h = "Achievements" -> d.achievements # <<>>

SectionHasHeading(d, h) == IF h = "Skills" THEN HasNamedSkill(d) ELSE FieldNonEmpty(d, h)

AsLines(hs) == [i \in 1..Len(hs) |-> <<hs[i]>>]

HeadingLinesOf(L) == SelectSeq(L, IsHeadingText)

\* C1 as stated: the headings of the returned text are those of the non-empty
\* fields (Skills whenever the skills sequence is non-empty), in the fixed order
\* Summary, Experience, Education, Skills, Achievements, and each heading line
\* is preceded by a blank line.  Stated for the records whose name is not
\* whitespace only: what becomes of a whitespace-only header is the subject
\* of C2.
C1_HeadingsOfNonEmptyFields ==
    "txt" \in served /\ (data.name = <<>> \/ Strip(data.name) # <<>>) =>
        /\ HeadingLinesOf(OutLines)
             = AsLines(SelectSeq(HeadingOrder, LAMBDA h : FieldNonEmpty(data, h)))
        /\ \A i \in 1..Len(OutLines) :
              IsHeadingText(OutLines[i]) => i > 1 /\ OutLines[i - 1] = <<>>

\* C1 amended: the headings appear in the fixed order; Summary, Experience,
\* Education and Achievements exactly when the field is non-empty, Skills
\* exactly when some skill has a non-empty name; each heading line is preceded
\* by a blank line unless the trim made it the first line of the text.
C1_HeadingsInFixedOrder ==
    "txt" \in served =>
        /\ HeadingLinesOf(OutLines)
             = AsLines(SelectSeq(HeadingOrder, LAMBDA h : SectionHasHeading(data, h)))
        /\ \A i \in 1..Len(OutLines) :
              IsHeadingText(OutLines[i]) => i = 1 \/ OutLines[i - 1] = <<>>

C1_Witness ==
    /\ "txt" \in served
    /\ data.skills # <<>> /\ HasNamedSkill(data)
    /\ data.summary # <<>> /\ data.experience = <<>> /\ data.achievements # <<>>
    /\ Len(HeadingLinesOf(OutLines)) = 3

\* C2: the first line of the returned text is the name, or "Your Name" when
\* the name is empty or whitespace only.
C2_FirstLineIsName ==
    "txt" \in served =>
        OutLines[1] = IF Strip(data.name) = <<>> THEN <<"Your", " ", "Name">> ELSE data.name

\* C3: the returned text ends with exactly one newline and, without it, has
\* no leading or trailing whitespace; the all-empty record gives "Your Name\n".
AllEmpty(d) ==
    /\ d.name = <<>> /\ d.title = <<>> /\ d.email = <<>> /\ d.phone = <<>>
    /\ d.location = <<>> /\ d.summary = <<>> /\ d.experience = <<>>
    /\ d.education = <<>> /\ d.skills = <<>> /\ d.achievements = <<>>

C3_TrimmedWithOneNewline ==
    "txt" \in served =>
        LET body == SubSeq(text, 1, Len(text) - 1) IN
        /\ Len(text) >= 1 /\ text[Len(text)] = NL
        /\ body # <<>> => ~IsSpace(body[1]) /\ ~IsSpace(body[Len(body)])
        /\ AllEmpty(data) => text = <<"Your", " ", "Name", NL>>

C3_Witness ==
    /\ "txt" \in served
    /\ IsSpace(Join(<<NL>>, parts)[Len(Join(<<NL>>, parts))])
    /\ Len(text) > 1

\* C4: the skills line lists, in input order and joined with ", ", the skills
\* that have a name: the name alone when the level is empty, "name (level)"
\* otherwise; a skill without a name is absent even when it has a level.
RECURSIVE ListedSkills(_, _)
ListedSkills(skills, started) ==
    IF skills = <<>> THEN <<>>
    ELSE LET s == Head(skills) IN
         IF s.name = <<>> THEN ListedSkills(Tail(skills), started)
         ELSE (IF started THEN <<",", " ">> ELSE <<>>)
              \o (IF s.level = <<>> THEN s.name ELSE s.name \o <<" ", "(">> \o s.level \o <<")">>)
              \o ListedSkills(Tail(skills), TRUE)

IsSkillsPart(p) == Len(p) >= 3 /\ SubSeq(p, 1, 3) = <<NL, "Skills", NL>>

C4_SkillsLine ==
    "txt" \in served =>
        LET want == ListedSkills(data.skills, FALSE)
            got == SelectSeq(parts, IsSkillsPart)
        IN  /\ want = <<>> => got = <<>>
            /\ want # <<>> =>
                 /\ got = << <<NL, "Skills", NL>> \o want >>
                 /\ ~IsSpace(want[Len(want)]) =>
                       \E i \in 1..(Len(OutLines) - 1) :
                          OutLines[i] = <<"Skills">> /\ OutLines[i + 1] = want

C4_Witness ==
    /\ "txt" \in served
    /\ Len(data.skills) = 2
    /\ data.skills[1].name = <<>> /\ data.skills[1].level # <<>>
    /\ data.skills[2].name # <<>> /\ data.skills[2].level = <<>>
    /\ \E i \in 1..Len(parts) : IsSkillsPart(parts[i])

\* Order preservation.  Exchanging two different neighbouring elements of an
\* input sequence exchanges their blocks of lines and changes nothing else,
\* and the block of the earlier element comes first.
SwapAt(s, k) == [i \in 1..Len(s) |-> IF i = k THEN s[k + 1] ELSE IF i = k + 1 THEN s[k] ELSE s[i]]

\* L2 is L1 with the neighbouring blocks X (starting with line x, a lines) and
\* Y (starting with line yl, b lines) exchanged; a or b may be 0.
BlocksSwapped(L1, L2, a, x, b, yl) ==
    \E p \in 0..Len(L1) :
        /\ p + a + b <= Len(L1)
        /\ a > 0 => L1[p + 1] = x
        /\ b > 0 => L1[p + a + 1] = yl
        /\ L2 = SubSeq(L1, 1, p) \o SubSeq(L1, p + a + 1, p + a + b)
                \o SubSeq(L1, p + 1, p + a) \o SubSeq(L1, p + a + b + 1, Len(L1))

NonBlankCount(bs) == Cardinality({i \in 1..Len(bs) : Strip(bs[i]) # <<>>})

ExpLine(e) == joined_fields(<<e.role, e.company, e.period>>)
EduLine(ed) == joined_fields(<<ed.degree, ed.school, ed.period>>)
ExpSize(e) == 1 + NonBlankCount(e.bullets)
EduSize(ed) == 1 + (IF ed.details # <<>> THEN 1 ELSE 0)
BulletSize(b) == IF Strip(b) # <<>> THEN 1 ELSE 0

WithBullets(d, k, bs) ==
    [d EXCEPT !.experience = [d.experience EXCEPT ![k] = [d.experience[k] EXCEPT !.bullets = bs]]]

\* OrderPreserved(L, F): L is the line list of this record, F gives the line
\* list of a permuted record.
OrderPreserved(L, F(_)) ==
    /\ \A k \in 1..(Len(data.experience) - 1) :
          data.experience[k] # data.experience[k + 1] =>
          BlocksSwapped(L, F([data EXCEPT !.experience = SwapAt(data.experience, k)]),
                        ExpSize(data.experience[k]), ExpLine(data.experience[k]),
                        ExpSize(data.experience[k + 1]), ExpLine(data.experience[k + 1]))
    /\ \A k \in 1..Len(data.experience) :
          \A j \in 1..(Len(data.experience[k].bullets) - 1) :
             LET bs == data.experience[k].bullets IN
             bs[j] # bs[j + 1] =>
             BlocksSwapped(L, F(WithBullets(data, k, SwapAt(bs, j))),
                           BulletSize(bs[j]), Bulleted(bs[j]),
                           BulletSize(bs[j + 1]), Bulleted(bs[j + 1]))
    /\ \A k \in 1..(Len(data.education) - 1) :
          data.education[k] # data.education[k + 1] =>
          BlocksSwapped(L, F([data EXCEPT !.education = SwapAt(data.education, k)]),
                        EduSize(data.education[k]), EduLine(data.education[k]),
                        EduSize(data.education[k + 1]), EduLine(data.education[k + 1]))
    /\ \A k \in 1..(Len(data.achievements) - 1) :
          LET ac == data.achievements IN
          ac[k] # ac[k + 1] =>
          BlocksSwapped(L, F([data EXCEPT !.achievements = SwapAt(ac, k)]),
                        BulletSize(ac[k]), Bulleted(ac[k]),
                        BulletSize(ac[k + 1]), Bulleted(ac[k + 1]))

OutLinesOf(d) == Split(SubSeq(format_text_resume(d), 1, Len(format_text_resume(d)) - 1), NL)

PartLinesOf(d) == Split(Join(<<NL>>, format_parts(d)), NL)

DocHeadings ==
    LET hs == SelectSeq(doc, LAMBDA b : b.kind = "heading1")
    IN  [i \in 1..Len(hs) |-> hs[i].text]

C7_DocxHasTextSections ==
    {"txt", "docx"} \subseteq served =>
        /\ DocHeadings = HeadingLinesOf(OutLines)
        /\ \A i \in 1..(Len(doc) - 1) :
              doc[i] = Block("heading1", <<"Skills">>) =>
                 \E j \in 1..Len(parts) :
                    parts[j] = <<NL, "Skills", NL>> \o doc[i + 1].text

----------------------------------------------------------------------------
(* export_pdf *)

PageWidth == 612
PageHeight == 792
XMargin == 40
TopOffset == 40
BottomMargin == 60
HeadingStep == 18
BodyStep == 14

TitleFont == <<"Helvetica-Bold", 14>>
HeadingFont == <<"Helvetica-Bold", 12>>
BodyFont == <<"Helvetica", 11>>

\* stringWidth of one atom in the body font, in points: a space, a word that
\* fills most of a line, any other chunk.
AtomWidth(c) == IF c = " " THEN 3 ELSE IF c = "WIDE" THEN 300 ELSE 30

RECURSIVE StringWidth(_)
StringWidth(t) == IF t = <<>> THEN 0 ELSE AtomWidth(Head(t)) + StringWidth(Tail(t))

\* str.split(): the maximal runs of non-whitespace
RECURSIVE Words(_)
Words(s) ==
    LET sp == {i \in 1..Len(s) : IsSpace(s[i])}
        first == CHOOSE i \in sp : \A j \in sp : i <= j
    IN  IF s = <<>> THEN <<>>
        ELSE IF sp = {} THEN <<s>>
        ELSE IF first = 1 THEN Words(Tail(s))
        ELSE <<SubSeq(s, 1, first - 1)>> \o Words(SubSeq(s, first + 1, Len(s)))

\* reportlab's greedy fill: a word joins the current sub-line O (of width w)
\* when it fits in maxWidth or O is empty, else it starts the next sub-line.
RECURSIVE Fill(_, _, _, _, _)
Fill(ws, O, w, L, mW) ==
    IF ws = <<>> THEN (IF O = <<>> THEN L ELSE Append(L, Join(<<" ">>, O)))
    ELSE LET t == Head(ws)
             lt == StringWidth(t)
         IN  IF w + AtomWidth(" ") + lt <= mW \/ O = <<>>
             THEN Fill(Tail(ws), Append(O, t), w + AtomWidth(" ") + lt, L, mW)
             ELSE Fill(Tail(ws), <<t>>, lt, Append(L, Join(<<" ">>, O)), mW)

simpleSplit(line, maxWidth) == Fill(Words(line), <<>>, 0 - AtomWidth(" "), <<>>, maxWidth)

needs_new_page_at_zero(yy) == yy < 0

needs_new_page(yy) == yy < BottomMargin

is_heading_exact(line) == line \in { <<"Summary">>, <<"Experience">>, <<"Education">>,
                                     <<"Skills">>, <<"Achievements">> }

is_heading(line) ==
    Strip(line) \in { <<"Summary">>, <<"Experience">>, <<"Education">>,
                      <<"Skills">>, <<"Achievements">> }

Wide(n) == [i \in 1..(2 * n - 1) |-> IF i % 2 = 1 THEN "WIDE" ELSE " "]

PdfInputs ==
    { Resume(n, t, <<>>, <<>>, <<>>, s, ex, ed, sk, ac) :
        n \in {<<"ann">>, <<"Summary">>},
        t \in {<<>>, <<"Skills", " ">>},
        s \in {<<>>, <<"about">>, <<" ", "Skills">>, Wide(LongWords), Wide(LongWords + 6)},
        ex \in ThinExp, ed \in ThinEdu, sk \in ThinSkills,
        ac \in {<<>>, << <<"won">> >>, << Wide(LongWords) >>} }

InitPdf ==
    /\ data \in PdfInputs
    /\ served = {} /\ parts = None /\ text = None /\ doc = None
    /\ PdfIdle /\ NoSuggest

\* lines 208-217
pdf_begin ==
    /\ pc = "idle"
    /\ text' = format_text_resume(data)
    /\ lines' = Split(format_text_resume(data), NL)
    /\ y' = PageHeight - TopOffset
    /\ font' = TitleFont
    /\ idx' = 1
    /\ pc' = "loop"
    /\ UNCHANGED <<data, served, parts, doc, pages, breaks, wrapped, cur, lastDraw, sugVars>>

\* lines 218-222, the cursor below the bottom margin
pdf_page_break ==
    /\ pc = "loop" /\ idx <= Len(lines)
    /\ needs_new_page(y)
    /\ pages' = pages + 1
    /\ breaks' = breaks + 1
    /\ font' = BodyFont
    /\ y' = PageHeight - TopOffset
    /\ pc' = "line"
    /\ UNCHANGED <<data, fmtVars, lines, idx, wrapped, cur, lastDraw, sugVars>>

\* lines 218-219, the cursor not below the bottom margin
pdf_same_page ==
    /\ pc = "loop" /\ idx <= Len(lines)
    /\ ~needs_new_page(y)
    /\ pc' = "line"
    /\ UNCHANGED <<data, fmtVars, lines, idx, y, font, pages, breaks, wrapped, cur,
                   lastDraw, sugVars>>

\* lines 224-229
pdf_heading ==
    /\ pc = "line"
    /\ is_heading(lines[idx])
    /\ lastDraw' = [kind |-> "drawString", x |-> XMargin, y |-> y, text |-> lines[idx],
                    font |-> HeadingFont]
    /\ font' = BodyFont
    /\ y' = y - HeadingStep
    /\ cur' = [line |-> lines[idx], y0 |-> y, kind |-> "heading", subs |-> 1]
    /\ idx' = idx + 1
    /\ pc' = "loop"
    /\ UNCHANGED <<data, fmtVars, lines, pages, breaks, wrapped, sugVars>>

\* line 230
pdf_wrap ==
    /\ pc = "line"
    /\ ~is_heading(lines[idx])
    /\ wrapped' = simpleSplit(lines[idx], PageWidth - 2 * XMargin)
    /\ cur' = [line |-> lines[idx], y0 |-> y, kind |-> "body",
               subs |-> Len(simpleSplit(lines[idx], PageWidth - 2 * XMargin))]
    /\ pc' = "draw"
    /\ UNCHANGED <<data, fmtVars, lines, idx, y, font, pages, breaks, lastDraw, sugVars>>

\* lines 231-233, one sub-line
pdf_draw ==
    /\ pc = "draw" /\ wrapped # <<>>
    /\ lastDraw' = [kind |-> "drawString", x |-> XMargin, y |-> y, text |-> Head(wrapped),
                    font |-> font]
    /\ y' = y - BodyStep
    /\ wrapped' = Tail(wrapped)
    /\ UNCHANGED <<data, fmtVars, pc, lines, idx, font, pages, breaks, cur, sugVars>>

\* line 231, the sub-lines exhausted
pdf_line_done ==
    /\ pc = "draw" /\ wrapped = <<>>
    /\ idx' = idx + 1
    /\ pc' = "loop"
    /\ UNCHANGED <<data, fmtVars, lines, y, font, pages, breaks, wrapped, cur, lastDraw,
                   sugVars>>

\* lines 234-238
pdf_finish ==
    /\ pc = "loop" /\ idx > Len(lines)
    /\ pages' = pages + 1
    /\ pc' = "done"
    /\ UNCHANGED <<data, fmtVars, lines, idx, y, font, breaks, wrapped, cur, lastDraw,
                   sugVars>>

NextPdf ==
    \/ pdf_begin \/ pdf_page_break \/ pdf_same_page \/ pdf_heading
    \/ pdf_wrap \/ pdf_draw \/ pdf_line_done \/ pdf_finish

SpecPdf == InitPdf /\ [][NextPdf]_vars

----------------------------------------------------------------------------
(* Properties of export_pdf *)

LineDone == pc \in {"loop", "done"} /\ cur # NoRecord

\* C8 as stated: a line is rendered as a heading (bold heading font, cursor
\* advanced by 18) exactly when it equals one of the five heading strings;
\* every other line advances the cursor by 14 per wrapped sub-line.
C8_HeadingIffEqual ==
    LineDone =>
        /\ cur.kind = "heading" <=> cur.line \in HeadingNames
        /\ cur.kind = "heading" =>
              /\ cur.y0 - y = 18
              /\ lastDraw.font = <<"Helvetica-Bold", 12>> /\ lastDraw.text = cur.line
        /\ cur.kind = "body" => cur.y0 - y = 14 * cur.subs

\* C8 amended: exactly when the line, its leading and trailing whitespace
\* removed, equals one of the five heading strings.
C8_HeadingIffStrippedEqual ==
    LineDone =>
        /\ cur.kind = "heading" <=> Strip(cur.line) \in HeadingNames
        /\ cur.kind = "heading" =>
              /\ cur.y0 - y = 18
              /\ lastDraw.font = <<"Helvetica-Bold", 12>> /\ lastDraw.text = cur.line
        /\ cur.kind = "body" => cur.y0 - y = 14 * cur.subs

C8_Witness ==
    /\ LineDone /\ cur.kind = "heading"
    /\ cur.line \notin HeadingNames
    /\ idx > 3

\* The cursor before line i when everything is drawn on a single page.
RECURSIVE SinglePageCursor(_)
SinglePageCursor(i) ==
    IF i = 1 THEN 792 - 40
    ELSE SinglePageCursor(i - 1)
         - (IF Strip(lines[i - 1]) \in HeadingNames THEN 18
            ELSE 14 * Len(simpleSplit(lines[i - 1], 612 - 80)))

ExceedsOnePage == \E i \in 1..Len(lines) : SinglePageCursor(i) < 60

\* C9: a text that exceeds one page's capacity gives at least two finalized
\* pages, and the finalized pages are one more than the page breaks taken in
\* the line loop.
C9_Pagination ==
    pc = "done" =>
        /\ pages = 1 + breaks
        /\ ExceedsOnePage => pages >= 2

C9_Witness ==
    /\ pc = "done" /\ ExceedsOnePage /\ pages >= 2
    /\ \A i \in 1..Len(lines) : SinglePageCursor(i) >= 0

\* C10: every drawString call, for a heading or for a wrapped sub-line, is
\* made with the cursor at or above the bottom margin of 60.
C10_DrawnAboveBottomMargin == lastDraw # NoRecord => lastDraw.y >= 60

----------------------------------------------------------------------------
(* ai_suggest *)

\* A value of the context dict: absent (ctx.get gives None), a str, an int or
\* a list of values.
Absent == [t |-> "absent", v |-> <<>>]
StrVal(x) == [t |-> "str", v |-> x]
IntVal(n) == [t |-> "int", v |-> n]
ListVal(xs) == [t |-> "list", v |-> xs]

\* Python truthiness of a context value
Falsy(val) ==
    \/ val.t = "absent"
    \/ val.t \in {"str", "list"} /\ val.v = <<>>
    \/ val.t = "int" /\ val.v = 0

OrDefault(val, default) == IF Falsy(val) THEN StrVal(default) ELSE val

Upper(c) == IF c = "a" THEN "A" ELSE IF c = "b" THEN "B" ELSE c
Lower(c) == IF c = "A" THEN "a" ELSE IF c = "B" THEN "b" ELSE c
IsLetter(c) == c \in {"a", "b", "A", "B"}

\* str.title(): a letter that follows a non-letter is upper-cased, the
\* other letters are lower-cased.
TitleCase(s) ==
    [i \in 1..Len(s) |->
        IF i = 1 \/ ~IsLetter(s[i - 1]) THEN Upper(s[i]) ELSE Lower(s[i])]

\* str(value) as an f-string interpolates it
Str(val) ==
    CASE val.t = "str" -> val.v
      [] val.t = "int" -> <<"int">>
      [] OTHER -> <<"[", "list", "]">>

\* for s in skills: the elements a value yields when iterated; an int is not
\* iterable.
Iterable(val) == val.t \in {"str", "list"}

Elements(val) ==
    IF val.t = "str" THEN [i \in 1..Len(val.v) |-> StrVal(<<val.v[i]>>)] ELSE val.v

Response(code, b) == [kind |-> "response", status |-> code, body |-> b]

\* an exception that leaves the handler
ServerError == Response(500, [detail |-> <<"Internal Server Error">>])

summary_text(title, skills_str) ==
    Strip(TitleCase(title)
          \o <<" ", "with a track record of delivering measurable outcomes.", " ",
               "Skilled in", " ">>
          \o skills_str
          \o <<".", " ",
               "Known for clear communication, ownership, and continuous improvement.",
               " ",
               "Seeking to leverage expertise to drive impact in a high-performing team.">>)

suggest_summary(ctx) ==
    LET title == OrDefault(ctx.title, <<"professional">>)
        skills == IF Falsy(ctx.skills) THEN ListVal(<<>>) ELSE ctx.skills
        kept == SelectSeq(Elements(skills), LAMBDA e : ~Falsy(e))
    IN  IF ~Iterable(skills) THEN ServerError
        ELSE IF \E i \in 1..Len(kept) : kept[i].t # "str" THEN ServerError
        ELSE IF title.t # "str" THEN ServerError
        ELSE Response(200,
                 [text |-> summary_text(title.v,
                              Join(<<",", " ">>, [i \in 1..Len(kept) |-> kept[i].v]))])

suggest_bullets(ctx) ==
    LET role == OrDefault(ctx.role, <<"Role">>)
        company == OrDefault(ctx.company, <<"Company">>)
    IN  Response(200,
            [bullets |->
                << <<"Drove end-to-end initiatives as", " ">> \o Str(role)
                      \o <<" ", "at", " ">> \o Str(company)
                      \o <<",", " ", "improving key KPIs by 15%+.">>,
                   <<"Collaborated cross-functionally to ship features on time while reducing defects.">>,
                   <<"Automated repetitive workflows to save team 4-6 hrs/week and increase consistency.">>,
                   <<"Translated business goals into actionable plans with clear milestones and metrics.">> >>])

suggest(p) ==
    IF p.type = "summary" THEN suggest_summary(p.context)
    ELSE IF p.type = "bullets" THEN suggest_bullets(p.context)
    ELSE Response(400, [detail |-> <<"Unsupported type">>])

SuggestInputs ==
    [ kind : {"payload"},
      type : {"summary", "bullets", "Summary", "bogus", ""},
      context :
        [ title : {Absent, StrVal(<<>>), StrVal(<<"a", "B", " ", "b", "a">>),
                   StrVal(<<" ">>), IntVal(7)},
          skills : {Absent, ListVal(<<>>),
                    ListVal(<<StrVal(<<"go">>), StrVal(<<>>), StrVal(<<"sql">>)>>),
                    StrVal(<<"g", "o">>), IntVal(3), ListVal(<<IntVal(1)>>)},
          role : {Absent, StrVal(<<"dev">>), IntVal(2)},
          company : {Absent, StrVal(<<>>), StrVal(<<"acme">>)} ] ]

InitSuggest ==
    /\ payload \in SuggestInputs
    /\ resp = NoRecord
    /\ data = Resume(<<>>, <<>>, <<>>, <<>>, <<>>, <<>>, <<>>, <<>>, <<>>, <<>>)
    /\ served = {} /\ parts = None /\ text = None /\ doc = None
    /\ PdfIdle

ai_suggest ==
    /\ resp = NoRecord
    /\ resp' = suggest(payload)
    /\ UNCHANGED <<data, fmtVars, pdfVars, payload>>

NextSuggest == ai_suggest

SpecSuggest == InitSuggest /\ [][NextSuggest]_vars

\* C6: type "summary" gives {"text": ...}, type "bullets" gives {"bullets":
\* [...]} with exactly four strings, and every other type gives the 400
\* response {"detail": "Unsupported type"}, whatever the context holds.
C6_SuggestResponses ==
    resp # NoRecord =>
        CASE payload.type = "summary" ->
                resp.status = 200 /\ DOMAIN resp.body = {"text"}
          [] payload.type = "bullets" ->
                resp.status = 200 /\ DOMAIN resp.body = {"bullets"}
                /\ Len(resp.body.bullets) = 4
          [] OTHER ->
                resp.status = 400 /\ resp.body = [detail |-> <<"Unsupported type">>]

====
